---- MODULE Spec2Model ----
(***************************************************************************)
(* Model of the analysis engine of info-sphere-analyzer:                   *)
(*   src/src/analyze.ts  analyze(), resolveCallTargetFile(), loadConfig()  *)
(*   src/src/run.ts      rating(), run()                                   *)
(*                                                                         *)
(* Paths are sequences of segments.  Numbers the engine computes in        *)
(* IEEE-754 double arithmetic (S, cohesion) are records of the form        *)
(* [k, n, d, e]: k is "fin", "inf" or "nan"; a finite value is             *)
(* (n / d) * 2^e with n/d in lowest terms.  Weights and alpha are positive *)
(* integers, for which Math.pow and the division are computed here exactly *)
(* as the double arithmetic computes their class (finite, zero, infinite,  *)
(* not-a-number) and order.  A fractional alpha, and with it the built-in  *)
(* configuration loadConfig returns when sphere.config.json is missing     *)
(* (alpha 1.8), is outside the model.                                      *)
(*                                                                         *)
(* The declarations of every file are fixed at the start of a run; the     *)
(* call expressions of a file are drawn one by one as the second pass      *)
(* enumerates them, and kept in calls.                                     *)
(***************************************************************************)
EXTENDS Integers, Sequences, FiniteSets, TLC

VARIABLES
  pc,          \* position inside run()/analyze()
  cfg,         \* the parsed sphere.config.json (loadConfig)
  decls,       \* per file on disk: its declarations (what ts-morph parses)
  calls,       \* per file: the CallExpression nodes enumerated so far in pass 2
  project,     \* project.getSourceFiles(): absolute paths, in enumeration order
  mapKeys,     \* insertion order of the keys of modulesMap
  modulesMap,  \* relative path -> accumulator
  i,           \* index into project of the file the current pass is at
  modules,     \* the ModuleMetrics array of analyze()
  annotated    \* run(): results with their rating

vars == <<pc, cfg, decls, calls, project, mapKeys, modulesMap, i, modules, annotated>>

-----------------------------------------------------------------------------
(* Bounds of the model *)

\* the largest number of call expressions in the whole corpus
MaxCalls == 2

-----------------------------------------------------------------------------
(* Generic helpers *)

Range(s) == { s[k] : k \in DOMAIN s }

RECURSIVE SumSeq(_)
SumSeq(s) == IF s = <<>> THEN 0 ELSE Head(s) + SumSeq(Tail(s))

RECURSIVE Gcd(_, _)
Gcd(a, b) == IF b = 0 THEN a ELSE Gcd(b, a % b)

RECURSIVE IntPow(_, _)
IntPow(b, x) == IF x = 0 THEN 1 ELSE b * IntPow(b, x - 1)

RECURSIVE Log2Floor(_)
Log2Floor(n) == IF n <= 1 THEN 0 ELSE 1 + Log2Floor(n \div 2)

\* all orderings of the elements of a set, as sequences
RECURSIVE Orderings(_)
Orderings(S) ==
  IF S = {} THEN { <<>> }
  ELSE UNION { { <<x>> \o t : t \in Orderings(S \ {x}) } : x \in S }

\* all rearrangements of a sequence
Rearrangements(s) ==
  { [k \in DOMAIN s |-> s[p[k]]] : p \in Orderings(DOMAIN s) }

-----------------------------------------------------------------------------
(* IEEE-754 doubles, as far as the engine uses them *)

\* largest binary exponent: values of 2^1024 and above overflow to Infinity
DoubleMaxExp == 1024
\* 2^-1074 is the smallest positive double; 2^x with x < -1074 rounds to 0
DoubleMinExp == 1074
\* Number.EPSILON is 2^-52
EpsilonExp == 52

NaN == [k |-> "nan", n |-> 0, d |-> 1, e |-> 0]
Infinity == [k |-> "inf", n |-> 0, d |-> 1, e |-> 0]
Fin(n, d, e) ==
  IF n = 0 THEN [k |-> "fin", n |-> 0, d |-> 1, e |-> 0]
  ELSE LET g == Gcd(n, d) IN [k |-> "fin", n |-> n \div g, d |-> d \div g, e |-> e]
Num(n) == Fin(n, 1, 0)
EPSILON == Fin(1, 1, -EpsilonExp)

IsFinite(x) == x.k = "fin"

\* x < y for finite x, y >= 0.  A value with e > 0 is an integer multiple of
\* 2^52 or more, a value with e = 0 a quotient of two model integers below it.
FinLess(x, y) ==
  IF x.e = y.e THEN x.n * y.d < y.n * x.d
  ELSE IF y.n = 0 THEN FALSE
  ELSE IF x.n = 0 THEN TRUE
  ELSE x.e < y.e

\* the sign of the double x - y: -1, 0, 1, or 2 when x - y is NaN
SubSign(x, y) ==
  IF x.k = "nan" \/ y.k = "nan" THEN 2
  ELSE IF x.k = "inf" /\ y.k = "inf" THEN 2
  ELSE IF x.k = "inf" THEN 1
  ELSE IF y.k = "inf" THEN -1
  ELSE IF FinLess(x, y) THEN -1
  ELSE IF FinLess(y, x) THEN 1
  ELSE 0

\* the comparisons x > y and x <= y of the language: false when either is NaN
Greater(x, y) ==
  /\ x.k # "nan" /\ y.k # "nan"
  /\ \/ x.k = "inf" /\ y.k # "inf"
     \/ x.k = "fin" /\ y.k = "fin" /\ FinLess(y, x)

LessEq(x, y) ==
  /\ x.k # "nan" /\ y.k # "nan"
  /\ \/ y.k = "inf"
     \/ x.k = "fin" /\ y.k = "fin" /\ ~ FinLess(y, x)

\* Math.pow(base, alpha): base is Number.EPSILON or a positive integer
Pow(base, alpha) ==
  IF base.e # 0
    THEN IF (-base.e) * alpha > DoubleMinExp
           THEN Num(0)                                  \* underflow
           ELSE Fin(1, 1, base.e * alpha)
  ELSE IF base.n = 1 THEN Num(1)
  ELSE IF alpha >= DoubleMaxExp THEN Infinity           \* overflow
  ELSE Num(IntPow(base.n, alpha))

\* the double v / p for an integer v >= 0 and a double p >= 0
Divide(v, p) ==
  IF p.k = "nan" THEN NaN
  ELSE IF p.k = "inf" THEN Num(0)
  ELSE IF p.n = 0 THEN (IF v = 0 THEN NaN ELSE Infinity)
  ELSE IF v = 0 THEN Num(0)
  ELSE IF p.e = 0 THEN Fin(v * p.d, p.n, 0)
  ELSE IF (-p.e) + Log2Floor(v) >= DoubleMaxExp THEN Infinity
  ELSE Fin(v, 1, -p.e)

-----------------------------------------------------------------------------
(* Paths, glob patterns and the files on disk *)

\* process.cwd()
Cwd == <<"work">>

FileA == <<"src", "a.ts">>
FileB == <<"src", "b.ts">>
FileC == <<"test", "c.ts">>
\* the TypeScript files below the working directory, relative to it
Files == { FileA, FileB, FileC }
Abs(rel) == Cwd \o rel
Disk == { Abs(f) : f \in Files }
\* a declaration file of an installed package
LibFile == Cwd \o <<"node_modules", "lib", "index.d.ts">>

\* path.relative(from, to)
RECURSIVE Relative(_, _)
Relative(from, to) ==
  IF from # <<>> /\ to # <<>> /\ Head(from) = Head(to)
    THEN Relative(Tail(from), Tail(to))
    ELSE [k \in 1..Len(from) |-> ".."] \o to

\* one path segment against one pattern segment
SegMatch(seg, p) ==
  \/ p = "*"
  \/ p = "*.ts" /\ seg \in { f[Len(f)] : f \in Files }
  \/ p = seg

\* minimatch(path, pattern, { dot: true }), and the glob of addSourceFilesAtPaths
RECURSIVE Match(_, _)
Match(path, pat) ==
  IF pat = <<>> THEN path = <<>>
  ELSE IF Head(pat) = "**"
    THEN Match(path, Tail(pat)) \/ (path # <<>> /\ Match(Tail(path), pat))
  ELSE path # <<>> /\ SegMatch(Head(path), Head(pat)) /\ Match(Tail(path), Tail(pat))

-----------------------------------------------------------------------------
(* Configuration *)

WeightNames ==
  { "privateMethod", "internalCall", "internalType", "exportedSymbol",
    "publicMethod", "externalImport", "outgoingCall" }

DEFAULT_WEIGHTS ==
  [ privateMethod |-> 1, internalCall |-> 1, internalType |-> 2,
    exportedSymbol |-> 3, publicMethod |-> 2, externalImport |-> 2,
    outgoingCall |-> 2 ]

DefaultInclude == << <<"src", "**", "*.ts">> >>
DefaultGood == 10
DefaultWarning == 3

Has(r, field) == field \in DOMAIN r

\* The contents sphere.config.json may have.  A field may be missing; alpha
\* is always given, as an integer.
Configs ==
  { [ include |-> << <<"**", "*.ts">> >>, alpha |-> 1100,
      thresholds |-> [good |-> 10, warning |-> 3] ],
    [ include |-> << <<"**", "*.ts">> >>,
      weights |-> [outgoingCall |-> 1, internalCall |-> 3], alpha |-> 1,
      thresholds |-> [good |-> 5] ],
    [ include |-> << <<"**", "*.ts">> >>, exclude |-> << <<"test", "**">> >>,
      alpha |-> 2, thresholds |-> [good |-> 10, warning |-> 3] ],
    [ include |-> << <<"lib", "**", "*.ts">> >>, exclude |-> << >>, alpha |-> 2,
      thresholds |-> [warning |-> 1] ],
    [ exclude |-> << <<"**", "b.ts">> >>, alpha |-> 1100 ] }

\* { ...DEFAULT_WEIGHTS, ...(cfg.weights || {}) }
Weights(c) ==
  [ w \in WeightNames |->
      IF Has(c, "weights") /\ Has(c.weights, w) THEN c.weights[w]
      ELSE DEFAULT_WEIGHTS[w] ]

\* cfg.include ?? ["src/**/*.ts"]
FilesToAdd(c) == IF Has(c, "include") THEN c.include ELSE DefaultInclude

-----------------------------------------------------------------------------
(* What a source file declares *)

\* A method: its modifiers and the number of outbound-call signatures
\* (fetch(, axios., http.request, XMLHttpRequest) in its body text.
\* A function: whether it is exported, and the same number for its body.
\* topHits: the signatures in the file's text outside every body.
\* An import is its module specifier, a sequence of characters.
EmptySource ==
  [ exports |-> {}, imports |-> <<>>, classes |-> <<>>, functions |-> <<>>,
    topHits |-> 0 ]

\* one private method, nothing exported
PrivateSource ==
  [ exports |-> {}, imports |-> <<>>,
    classes |-> << [ methods |-> << [mods |-> {"private"}, hits |-> 0] >>,
                     props |-> 0, ctors |-> 0 ] >>,
    functions |-> <<>>, topHits |-> 0 ]

\* three exported names, two public methods
SurfaceSource ==
  [ exports |-> {"X", "Y", "Z"}, imports |-> << <<".", "/", "a">> >>,
    classes |-> << [ methods |-> << [mods |-> {"public"}, hits |-> 0],
                                    [mods |-> {}, hits |-> 0] >>,
                     props |-> 0, ctors |-> 0 ] >>,
    functions |-> <<>>, topHits |-> 0 ]

\* a client: imports a package, fetches in a protected method and a function
ClientSource ==
  [ exports |-> {"get"}, imports |-> << <<"a", "x">>, <<"/", "r">> >>,
    classes |-> << [ methods |-> << [mods |-> {"protected"}, hits |-> 2],
                                    [mods |-> {"private", "static"}, hits |-> 0] >>,
                     props |-> 2, ctors |-> 1 ] >>,
    functions |-> << [exported |-> TRUE, hits |-> 1],
                     [exported |-> FALSE, hits |-> 0] >>,
    topHits |-> 1 ]

\* a helper with state and no surface: one private method, one property
StateSource ==
  [ exports |-> {}, imports |-> <<>>,
    classes |-> << [ methods |-> << [mods |-> {"private"}, hits |-> 0] >>,
                     props |-> 1, ctors |-> 0 ] >>,
    functions |-> <<>>, topHits |-> 0 ]

\* The corpora on disk: what each file declares.
Corpora ==
  { [ f \in Files |-> IF f = FileA THEN PrivateSource
                      ELSE IF f = FileB THEN SurfaceSource ELSE EmptySource ],
    [ f \in Files |-> IF f = FileC THEN ClientSource ELSE EmptySource ],
    [ f \in Files |-> IF f = FileA THEN ClientSource
                      ELSE IF f = FileB THEN StateSource ELSE PrivateSource ] }

-----------------------------------------------------------------------------
(* Call expressions and their resolution *)

\* A CallExpression node: the kind of its callee expression; sym, the
\* declarations of the callee's symbol (<<>> when the callee has no symbol,
\* << ds >> when it has one declared at the source files ds); left, the same
\* for the left side of a property access.
CallNodes ==
  { [ kind |-> "identifier", sym |-> << <<Abs(FileA)>> >>, left |-> <<>> ],
    [ kind |-> "identifier", sym |-> << <<Abs(FileB)>> >>, left |-> <<>> ],
    [ kind |-> "propertyAccess", sym |-> << <<Abs(FileC)>> >>, left |-> <<>> ],
    [ kind |-> "propertyAccess", sym |-> <<>>, left |-> << <<Abs(FileB)>> >> ],
    [ kind |-> "identifier", sym |-> <<>>, left |-> <<>> ],
    [ kind |-> "other", sym |-> << <<>> >>, left |-> <<>> ],
    [ kind |-> "propertyAccess", sym |-> << <<LibFile, Abs(FileA)>> >>,
      left |-> <<>> ] }

\* isNodeModuleFile(fp)
isNodeModuleFile(fp) ==
  \E k \in DOMAIN fp : fp[k] \in { "node_modules", "@types" }

\* the three results of resolveCallTargetFile
External == [tag |-> "external", path |-> <<>>]
Undefined == [tag |-> "undefined", path |-> <<>>]
ProjectFile(rel) == [tag |-> "file", path |-> rel]

resolveCallTargetFile(callNode) ==
  LET sym == IF callNode.sym # <<>> THEN callNode.sym
             ELSE IF callNode.kind = "propertyAccess" THEN callNode.left
             ELSE callNode.sym
  IN IF sym = <<>> THEN Undefined
     ELSE LET ds == sym[1]
          IN IF ds = <<>> THEN Undefined
             ELSE IF isNodeModuleFile(ds[1]) THEN External
             ELSE ProjectFile(Relative(Cwd, ds[1]))

-----------------------------------------------------------------------------
(* The accumulators and the two passes *)

NewEntry ==
  [ exportedCount |-> 0, externalImports |-> 0, privateMethodCount |-> 0,
    publicMethodCount |-> 0, internalTypeCount |-> 0,
    outgoingCallHeuristic |-> 0, callsOut_total |-> 0, callsOut_internal |-> 0,
    callsOut_external |-> 0, incomingInternal |-> 0, incomingExternal |-> 0 ]

\* faulty variant of ExcludeMatches: the pattern is matched against the
\* absolute path
ExcludeMatches_abs(sf, c) ==
  \E k \in DOMAIN c.exclude : Match(sf, c.exclude[k])
\* the filter of the manual excludes: is this source file to be removed?
ExcludeMatches(sf, c) ==
  LET rel == Relative(Cwd, sf)
  IN \E k \in DOMAIN c.exclude : Match(rel, c.exclude[k])

\* imp.getModuleSpecifierValue() names a module outside the corpus
IsExternalImport(spec) == ~ (spec # <<>> /\ Head(spec) \in { ".", "/" })

\* a method counts as public
IsPublic(mth) ==
  "public" \in mth.mods \/ ("private" \notin mth.mods /\ "protected" \notin mth.mods)

Count(s, P(_)) == Cardinality({ k \in DOMAIN s : P(s[k]) })

\* the methods of the classes of a source file, as <<class, method>> indices
Methods(src) ==
  UNION { { <<c, k>> : k \in DOMAIN src.classes[c].methods } :
          c \in DOMAIN src.classes }

\* the first pass on one source file
Collect(m, src) ==
  LET mths == [ ck \in Methods(src) |-> src.classes[ck[1]].methods[ck[2]] ]
      pubM == Cardinality({ ck \in Methods(src) : IsPublic(mths[ck]) })
      prvM == Cardinality({ ck \in Methods(src) : ~ IsPublic(mths[ck]) })
      hitM == Cardinality({ ck \in Methods(src) : mths[ck].hits > 0 })
      pubF == Count(src.functions, LAMBDA fn : fn.exported)
      prvF == Count(src.functions, LAMBDA fn : ~ fn.exported)
      hitF == Count(src.functions, LAMBDA fn : fn.hits > 0)
      bodyText == SumSeq([ k \in DOMAIN src.functions |-> src.functions[k].hits ])
                  + SumSeq([ c \in DOMAIN src.classes |->
                       SumSeq([ k \in DOMAIN src.classes[c].methods |->
                                  src.classes[c].methods[k].hits ]) ])
      fullText == src.topHits + bodyText
  IN [ m EXCEPT
         !.exportedCount = Cardinality(src.exports),
         !.externalImports = Count(src.imports, IsExternalImport),
         !.publicMethodCount = @ + pubM + pubF,
         !.privateMethodCount = @ + prvM + prvF,
         !.internalTypeCount = @ + SumSeq([ c \in DOMAIN src.classes |->
                                  src.classes[c].props + src.classes[c].ctors ]),
         !.outgoingCallHeuristic = @ + hitM + hitF + fullText ]

\* faulty variant of Tracked: only the modules the second pass has already
\* visited count as tracked (accumulators created while scanning)
Tracked_visited(map, target) ==
  /\ target \in DOMAIN map
  /\ \E k \in 1..(i - 1) : Relative(Cwd, project[k]) = target
\* modulesMap[target] is truthy
Tracked(map, target) == target \in DOMAIN map

\* callerEntry.callsOut_total++
CountCall(map, caller) ==
  [ map EXCEPT ![caller].callsOut_total = @ + 1 ]

\* target === "external"
TallyExternal(map, caller) ==
  [ map EXCEPT ![caller].callsOut_external = @ + 1 ]

\* faulty variant of TallyUnresolved: the call is counted in the total only
TallyUnresolved_dropped(map, caller) == map
\* !target: unresolved -> consider external
TallyUnresolved(map, caller) ==
  [ map EXCEPT ![caller].callsOut_external = @ + 1 ]

\* faulty variant of TallySelf: the self call is credited as an incoming call
TallySelf_incoming(map, caller) ==
  [ map EXCEPT ![caller].callsOut_internal = @ + 1,
               ![caller].incomingInternal = @ + 1 ]
\* target === callerFile: internal call (self)
TallySelf(map, caller) ==
  [ map EXCEPT ![caller].callsOut_internal = @ + 1,
               ![caller].incomingInternal = @ + 0 ]

\* faulty variant of TallyCross: the incoming call is credited to the caller
TallyCross_callerKey(map, caller, target) ==
  LET m1 == [ map EXCEPT ![caller].callsOut_external = @ + 1 ]
  IN IF Tracked(m1, target)
       THEN [ m1 EXCEPT ![caller].incomingInternal = @ + 1 ]
       ELSE m1
\* faulty variant of TallyCross: an accumulator is created for a target that
\* is not tracked
TallyCross_create(map, caller, target) ==
  LET m1 == [ map EXCEPT ![caller].callsOut_external = @ + 1 ]
  IN IF Tracked(m1, target)
       THEN [ m1 EXCEPT ![target].incomingInternal = @ + 1 ]
       ELSE [ k \in DOMAIN m1 \cup {target} |->
                IF k = target THEN [ NewEntry EXCEPT !.incomingInternal = 1 ]
                ELSE m1[k] ]
\* the inter-file call branch
TallyCross(map, caller, target) ==
  LET m1 == [ map EXCEPT ![caller].callsOut_external = @ + 1 ]
  IN IF Tracked(m1, target)
       THEN [ m1 EXCEPT ![target].incomingInternal = @ + 1 ]
       ELSE m1

-----------------------------------------------------------------------------
(* The synthesizer, the ranking and the rating *)

\* faulty variant of Cohesion: no test for a module without calls
Cohesion_unguarded(data) ==
  Divide(data.callsOut_internal, Num(data.callsOut_total))
\* cohesion: fraction of outgoing calls that stay internal to this module
Cohesion(data) ==
  IF data.callsOut_total = 0 THEN Num(1)
  ELSE Divide(data.callsOut_internal, Num(data.callsOut_total))

RawV(data, w) ==
  (data.privateMethodCount * w.privateMethod)
  + ((data.callsOut_internal + data.incomingInternal) * w.internalCall)
  + (data.internalTypeCount * w.internalType)

RawA(data, w) ==
  (data.exportedCount * w.exportedSymbol)
  + (data.publicMethodCount * w.publicMethod)
  + (data.externalImports * w.externalImport)
  + (data.outgoingCallHeuristic * w.outgoingCall)
  + (data.callsOut_external * w.outgoingCall)

AforS(rawA) == IF rawA = 0 THEN EPSILON ELSE Num(rawA)

Sphericity(rawV, rawA, alpha) == Divide(rawV, Pow(AforS(rawA), alpha))

\* one ModuleMetrics object
Metrics(file, data, w, alpha) ==
  [ id |-> file, file |-> file, V |-> RawV(data, w), A |-> RawA(data, w),
    s |-> Sphericity(RawV(data, w), RawA(data, w), alpha),
    cohesion |-> Cohesion(data), extras |-> data ]

\* the comparator handed to sort, (a.s ?? 0) - (b.s ?? 0); sort reads a NaN
\* result as +0
SortCompare(a, b) ==
  LET v == SubSign(a.s, b.s) IN IF v = 2 THEN 0 ELSE v

\* the comparator orders the elements consistently
Consistent(s) ==
  \A a, b, c \in Range(s) :
    /\ SortCompare(a, b) = 0 => SortCompare(b, a) = 0
    /\ SortCompare(a, b) = 0 /\ SortCompare(b, c) = 0 => SortCompare(a, c) = 0
    /\ SortCompare(a, b) < 0 /\ SortCompare(b, c) < 0 => SortCompare(a, c) < 0
    /\ SortCompare(a, b) > 0 /\ SortCompare(b, c) > 0 => SortCompare(a, c) > 0

\* x put into the sorted sequence s behind every element not above it
RECURSIVE Insert(_, _)
Insert(x, s) ==
  IF s = <<>> THEN <<x>>
  ELSE IF SortCompare(Head(s), x) <= 0 THEN <<Head(s)>> \o Insert(x, Tail(s))
  ELSE <<x>> \o s

RECURSIVE StableSort(_)
StableSort(s) ==
  IF s = <<>> THEN <<>>
  ELSE Insert(s[Len(s)], StableSort(SubSeq(s, 1, Len(s) - 1)))

\* what modules.sort(...) may leave: the stable ascending order, or, when the
\* comparator is not consistent, an order the engine's sort is free to choose
SortOutcomes(s) ==
  IF Consistent(s) THEN { StableSort(s) } ELSE Rearrangements(s)

\* cfg.thresholds as an optional value: <<>> when absent
Thresholds(c) == IF Has(c, "thresholds") THEN << c.thresholds >> ELSE <<>>

\* x ?? y on optional values
Coalesce(x, y) == IF x # <<>> THEN x ELSE y

Good(th) == IF Has(th, "good") THEN th.good ELSE DefaultGood
Warning(th) == IF Has(th, "warning") THEN th.warning ELSE DefaultWarning

\* faulty variant of rating: no isFinite test
rating_unchecked(s, thresholds) ==
  IF thresholds = <<>> THEN "UNKNOWN"
  ELSE IF Greater(s, Num(Good(thresholds[1]))) THEN "GOOD"
  ELSE IF Greater(s, Num(Warning(thresholds[1]))) THEN "WARNING"
  ELSE "COLLAPSE"
\* rating(s, thresholds) of run.ts
rating(s, thresholds) ==
  IF thresholds = <<>> THEN "UNKNOWN"
  ELSE IF ~ IsFinite(s) THEN "UNKNOWN"
  ELSE IF Greater(s, Num(Good(thresholds[1]))) THEN "GOOD"
  ELSE IF Greater(s, Num(Warning(thresholds[1]))) THEN "WARNING"
  ELSE "COLLAPSE"

-----------------------------------------------------------------------------
(* The state machine *)

Init ==
  /\ pc = "addSourceFiles"
  /\ cfg \in Configs
  /\ decls \in Corpora
  /\ calls = [ f \in Files |-> <<>> ]
  /\ project = <<>>
  /\ mapKeys = <<>>
  /\ modulesMap = <<>>
  /\ i = 0
  /\ modules = <<>>
  /\ annotated = <<>>

\* project.addSourceFilesAtPaths(filesToAdd): the files the globs match, in
\* the order the file system enumerates them
AddSourceFiles ==
  /\ pc = "addSourceFiles"
  /\ LET globs == FilesToAdd(cfg)
         found == { sf \in Disk :
                      \E k \in DOMAIN globs : Match(Relative(Cwd, sf), globs[k]) }
     IN project' \in Orderings(found)
  /\ pc' = "exclude"
  /\ UNCHANGED <<cfg, decls, calls, mapKeys, modulesMap, i, modules, annotated>>

\* Apply manual excludes
ApplyExcludes ==
  /\ pc = "exclude"
  /\ project' = IF Has(cfg, "exclude") /\ Len(cfg.exclude) > 0
                  THEN SelectSeq(project, LAMBDA sf : ~ ExcludeMatches(sf, cfg))
                  ELSE project
  /\ pc' = "init"
  /\ UNCHANGED <<cfg, decls, calls, mapKeys, modulesMap, i, modules, annotated>>

\* Initialize module entries
InitEntries ==
  /\ pc = "init"
  /\ mapKeys' = [ k \in DOMAIN project |-> Relative(Cwd, project[k]) ]
  /\ modulesMap' = [ rel \in { Relative(Cwd, sf) : sf \in Range(project) } |-> NewEntry ]
  /\ i' = 1
  /\ pc' = "pass1"
  /\ UNCHANGED <<cfg, decls, calls, project, modules, annotated>>

\* the source file the current pass is at, as a key of modulesMap
Current == Relative(Cwd, project[i])

\* First pass, one source file
FirstPass ==
  /\ pc = "pass1"
  /\ i <= Len(project)
  /\ modulesMap' = [ modulesMap EXCEPT ![Current] = Collect(@, decls[Current]) ]
  /\ i' = i + 1
  /\ UNCHANGED <<pc, cfg, decls, calls, project, mapKeys, modules, annotated>>

EndFirstPass ==
  /\ pc = "pass1"
  /\ i > Len(project)
  /\ i' = 1
  /\ pc' = "pass2"
  /\ UNCHANGED <<cfg, decls, calls, project, mapKeys, modulesMap, modules, annotated>>

\* the call expressions enumerated so far, over all files
TotalCalls == SumSeq([ k \in DOMAIN mapKeys |-> Len(calls[mapKeys[k]]) ])

\* Second pass: the next call expression of the current file is callNode
AtCall(callNode) ==
  /\ pc = "pass2"
  /\ i <= Len(project)
  /\ TotalCalls < MaxCalls
  /\ calls' = [ calls EXCEPT ![Current] = Append(@, callNode) ]
  /\ UNCHANGED <<pc, cfg, decls, project, mapKeys, i, modules, annotated>>

CallExternal ==
  \E callNode \in CallNodes :
    /\ AtCall(callNode)
    /\ resolveCallTargetFile(callNode) = External
    /\ modulesMap' = TallyExternal(CountCall(modulesMap, Current), Current)

CallUnresolved ==
  \E callNode \in CallNodes :
    /\ AtCall(callNode)
    /\ resolveCallTargetFile(callNode) = Undefined
    /\ modulesMap' = TallyUnresolved(CountCall(modulesMap, Current), Current)

CallSelf ==
  \E callNode \in CallNodes :
    /\ AtCall(callNode)
    /\ resolveCallTargetFile(callNode) = ProjectFile(Current)
    /\ modulesMap' = TallySelf(CountCall(modulesMap, Current), Current)

CallCross ==
  \E callNode \in CallNodes :
    LET target == resolveCallTargetFile(callNode)
    IN /\ AtCall(callNode)
       /\ target.tag = "file"
       /\ target.path # Current
       /\ modulesMap' = TallyCross(CountCall(modulesMap, Current), Current, target.path)

\* the current file has no further call expression
NextFile ==
  /\ pc = "pass2"
  /\ i <= Len(project)
  /\ i' = i + 1
  /\ UNCHANGED <<pc, cfg, decls, calls, project, mapKeys, modulesMap, modules, annotated>>

EndSecondPass ==
  /\ pc = "pass2"
  /\ i > Len(project)
  /\ pc' = "compose"
  /\ UNCHANGED <<cfg, decls, calls, project, mapKeys, modulesMap, i, modules, annotated>>

\* Compose ModuleMetrics objects, in the order of Object.entries(modulesMap)
Compose ==
  /\ pc = "compose"
  /\ modules' = [ k \in DOMAIN mapKeys |->
                    Metrics(mapKeys[k], modulesMap[mapKeys[k]], Weights(cfg), cfg.alpha) ]
  /\ pc' = "sort"
  /\ UNCHANGED <<cfg, decls, calls, project, mapKeys, modulesMap, i, annotated>>

\* sort ascending (lowest s first), and return
Sort ==
  /\ pc = "sort"
  /\ modules' \in SortOutcomes(modules)
  /\ pc' = "annotate"
  /\ UNCHANGED <<cfg, decls, calls, project, mapKeys, modulesMap, i, annotated>>

\* the fields of r and its rating
Annotated(r, th) ==
  [ id |-> r.id, file |-> r.file, V |-> r.V, A |-> r.A, s |-> r.s,
    cohesion |-> r.cohesion, extras |-> r.extras, rating |-> rating(r.s, th) ]

\* run(): annotate the results of analyze() with their rating.  run() and
\* analyze() read the same sphere.config.json, so cfg.thresholds ?? thresholds
\* has the same optional value on both sides.
Annotate ==
  /\ pc = "annotate"
  /\ annotated' = [ k \in DOMAIN modules |->
                      Annotated(modules[k], Coalesce(Thresholds(cfg), Thresholds(cfg))) ]
  /\ pc' = "done"
  /\ UNCHANGED <<cfg, decls, calls, project, mapKeys, modulesMap, i, modules>>

Next ==
  \/ AddSourceFiles
  \/ ApplyExcludes
  \/ InitEntries
  \/ FirstPass
  \/ EndFirstPass
  \/ CallExternal
  \/ CallUnresolved
  \/ CallSelf
  \/ CallCross
  \/ NextFile
  \/ EndSecondPass
  \/ Compose
  \/ Sort
  \/ Annotate

Spec == Init /\ [][Next]_vars

-----------------------------------------------------------------------------
(* Properties *)

\* analyze() has composed its ModuleMetrics objects
Composed == pc \in { "sort", "annotate", "done" }
\* analyze() has returned its results
Returned == pc \in { "annotate", "done" }

\* the modules that survive the include and exclude patterns of a config
Surviving(c) ==
  { f \in Files :
      /\ \E k \in DOMAIN FilesToAdd(c) : Match(f, FilesToAdd(c)[k])
      /\ ~ (Has(c, "exclude") /\ \E k \in DOMAIN c.exclude : Match(f, c.exclude[k])) }

\* this step of the second pass processes the call expression callNode of caller
Processes(caller, callNode) ==
  /\ pc = "pass2"
  /\ i \in DOMAIN project
  /\ Current = caller
  /\ calls'[caller] = Append(calls[caller], callNode)

\* the second pass has just processed a call expression; its resolution
JustProcessed == pc = "pass2" /\ i \in DOMAIN project /\ calls[Current] # <<>>
LastTarget == resolveCallTargetFile(calls[Current][Len(calls[Current])])

\* C1: every module of the results has a finite sphericity: S is never NaN
\* and never infinite, also when the module's area is 0.
C1_SphericityFinite ==
  Composed => \A k \in DOMAIN modules : IsFinite(modules[k].s)

\* C2: the results analyze() returns are non-decreasing in S: each record's s
\* is <= the s of the record behind it.
C2_NonDecreasing ==
  Returned =>
    \A k \in 1..(Len(modules) - 1) : LessEq(modules[k].s, modules[k + 1].s)

\* C3: the cohesion of every module of the results lies in [0,1]; it is 1
\* when the module made no call, and callsOut_internal / callsOut_total
\* otherwise.
C3_CohesionRange ==
  Composed =>
    \A k \in DOMAIN modules :
      LET c == modules[k].cohesion
          total == modules[k].extras.callsOut_total
          internal == modules[k].extras.callsOut_internal
      IN /\ IsFinite(c) /\ c.e = 0
         /\ 0 <= c.n /\ c.n <= c.d
         /\ total = 0 => (c.n = 1 /\ c.d = 1)
         /\ total # 0 => c.n * total = internal * c.d

\* a module that made one self call and one other call: cohesion 1/2
C3_Witness ==
  /\ pc = "done"
  /\ \E k \in DOMAIN modules :
       /\ modules[k].extras.callsOut_total = 2
       /\ modules[k].cohesion.n = 1 /\ modules[k].cohesion.d = 2

\* C4: the results hold exactly one record for each module that survives the
\* include/exclude filtering, none for an excluded module, and no two records
\* with the same id; an empty corpus gives empty results.
C4_OneRecordPerModule ==
  Returned =>
    /\ { modules[k].id : k \in DOMAIN modules } = Surviving(cfg)
    /\ Len(modules) = Cardinality(Surviving(cfg))
    /\ \A j, k \in DOMAIN modules : j # k => modules[j].id # modules[k].id
    /\ \A k \in DOMAIN modules :
         ~ (Has(cfg, "exclude") /\
            \E x \in DOMAIN cfg.exclude : Match(modules[k].id, cfg.exclude[x]))
    /\ Surviving(cfg) = {} => modules = <<>>

\* results of a run whose exclude pattern removed a module and kept two
C4_Witness ==
  /\ pc = "done"
  /\ Len(modules) = 2
  /\ \E f \in Files :
       /\ \E k \in DOMAIN FilesToAdd(cfg) : Match(f, FilesToAdd(cfg)[k])
       /\ Has(cfg, "exclude")
       /\ \E x \in DOMAIN cfg.exclude : Match(f, cfg.exclude[x])

\* C5: processing one call from tracked module c1 that resolves to another
\* tracked module c2 adds 1 to c1's callsOut_external and 1 to c2's
\* incomingInternal, and leaves c1's callsOut_internal, c1's incomingInternal
\* and every counter of every third module as they were.
C5_CrossCallFrame ==
  [][ \A c1 \in DOMAIN modulesMap, callNode \in CallNodes :
        LET target == resolveCallTargetFile(callNode)
            c2 == target.path
        IN ( /\ Processes(c1, callNode)
             /\ target.tag = "file" /\ c2 # c1 /\ c2 \in DOMAIN modulesMap )
           =>
           /\ DOMAIN modulesMap' = DOMAIN modulesMap
           /\ modulesMap'[c1].callsOut_external = modulesMap[c1].callsOut_external + 1
           /\ modulesMap'[c2].incomingInternal = modulesMap[c2].incomingInternal + 1
           /\ modulesMap'[c1].callsOut_internal = modulesMap[c1].callsOut_internal
           /\ modulesMap'[c1].incomingInternal = modulesMap[c1].incomingInternal
           /\ \A m \in DOMAIN modulesMap \ { c1, c2 } : modulesMap'[m] = modulesMap[m]
    ]_vars

\* a cross-module call between two tracked modules has just been processed,
\* with a third module tracked
C5_Witness ==
  /\ JustProcessed
  /\ LastTarget.tag = "file"
  /\ LastTarget.path # Current
  /\ LastTarget.path \in DOMAIN modulesMap
  /\ Cardinality(DOMAIN modulesMap) = 3
  /\ modulesMap[Current].callsOut_external = 1
  /\ modulesMap[LastTarget.path].incomingInternal = 1

\* C6: processing a self-call (its target is the caller's own path) adds 1 to
\* the caller's callsOut_internal only: every module's incomingInternal and
\* callsOut_external stay what they were, and so does every other module.
C6_SelfCallFrame ==
  [][ \A c \in DOMAIN modulesMap, callNode \in CallNodes :
        ( /\ Processes(c, callNode)
          /\ resolveCallTargetFile(callNode) = ProjectFile(c) )
        =>
        /\ DOMAIN modulesMap' = DOMAIN modulesMap
        /\ modulesMap'[c].callsOut_internal = modulesMap[c].callsOut_internal + 1
        /\ \A m \in DOMAIN modulesMap :
             /\ modulesMap'[m].incomingInternal = modulesMap[m].incomingInternal
             /\ modulesMap'[m].callsOut_external = modulesMap[m].callsOut_external
             /\ m # c => modulesMap'[m] = modulesMap[m]
    ]_vars

\* two self-calls of one module have been processed, and nothing else
C6_Witness ==
  /\ JustProcessed
  /\ LastTarget = ProjectFile(Current)
  /\ modulesMap[Current].callsOut_internal = 2
  /\ \A m \in DOMAIN modulesMap :
       modulesMap[m].incomingInternal = 0 /\ modulesMap[m].callsOut_external = 0

\* C7: a call from a tracked module whose target is not in the module map
\* (a module an exclude pattern removed, or no resolved target at all) adds 1
\* to the caller's callsOut_external; no module's incomingInternal changes and
\* no accumulator is created.
C7_ExcludedTargetFrame ==
  [][ \A c \in DOMAIN modulesMap, callNode \in CallNodes :
        LET target == resolveCallTargetFile(callNode)
        IN ( /\ Processes(c, callNode)
             /\ \/ target = Undefined
                \/ target.tag = "file" /\ target.path \notin DOMAIN modulesMap )
           =>
           /\ DOMAIN modulesMap' = DOMAIN modulesMap
           /\ modulesMap'[c].callsOut_external = modulesMap[c].callsOut_external + 1
           /\ \A m \in DOMAIN modulesMap :
                modulesMap'[m].incomingInternal = modulesMap[m].incomingInternal
    ]_vars

\* a call into a module that an exclude pattern removed has just been processed
C7_Witness ==
  /\ JustProcessed
  /\ LastTarget.tag = "file"
  /\ LastTarget.path \notin DOMAIN modulesMap
  /\ Has(cfg, "exclude")
  /\ \E x \in DOMAIN cfg.exclude : Match(LastTarget.path, cfg.exclude[x])
  /\ modulesMap[Current].callsOut_external = 1

\* C8: the rating of every record run() annotates is decided by the engine's
\* S and the thresholds alone: UNKNOWN when the thresholds are absent or S is
\* NaN or infinite; otherwise GOOD if S > good, else WARNING if S > warning,
\* else COLLAPSE (good and warning default to 10 and 3).
C8_RatingOfS ==
  pc = "done" =>
    /\ Len(annotated) = Len(modules)
    /\ \A k \in DOMAIN annotated :
         LET s == modules[k].s
             r == annotated[k].rating
             above(t) == s.e > 0 \/ s.n > t * s.d
         IN IF ~ Has(cfg, "thresholds") THEN r = "UNKNOWN"
            ELSE LET good == IF Has(cfg.thresholds, "good")
                               THEN cfg.thresholds.good ELSE DefaultGood
                     warning == IF Has(cfg.thresholds, "warning")
                                  THEN cfg.thresholds.warning ELSE DefaultWarning
                 IN /\ annotated[k].s = s
                    /\ s.k # "fin" => r = "UNKNOWN"
                    /\ (s.k = "fin" /\ above(good)) => r = "GOOD"
                    /\ (s.k = "fin" /\ ~ above(good) /\ above(warning)) => r = "WARNING"
                    /\ (s.k = "fin" /\ ~ above(good) /\ ~ above(warning)) => r = "COLLAPSE"

\* a report with a GOOD, a WARNING and a COLLAPSE module
C8_Witness ==
  /\ pc = "done"
  /\ { "GOOD", "WARNING", "COLLAPSE" } \subseteq
       { annotated[k].rating : k \in DOMAIN annotated }

\* the number of call expressions of file f that resolve to module m
CallsInto(f, m) ==
  Cardinality({ k \in DOMAIN calls[f] :
                  resolveCallTargetFile(calls[f][k]) = ProjectFile(m) })

\* V, A and cohesion of module m as functions of the config, the declarations
\* and the call expressions of the corpus, with no reference to any order
CorpusV(m) ==
  LET w == Weights(cfg)
      c == Collect(NewEntry, decls[m])
      incoming == Cardinality(UNION {
                    { <<f, k>> : k \in { x \in DOMAIN calls[f] :
                        resolveCallTargetFile(calls[f][x]) = ProjectFile(m) } } :
                    f \in Surviving(cfg) \ {m} })
  IN c.privateMethodCount * w.privateMethod
     + (CallsInto(m, m) + incoming) * w.internalCall
     + c.internalTypeCount * w.internalType

CorpusA(m) ==
  LET w == Weights(cfg)
      c == Collect(NewEntry, decls[m])
  IN c.exportedCount * w.exportedSymbol + c.publicMethodCount * w.publicMethod
     + c.externalImports * w.externalImport
     + c.outgoingCallHeuristic * w.outgoingCall
     + (Len(calls[m]) - CallsInto(m, m)) * w.outgoingCall

CorpusCohesion(m) ==
  IF Len(calls[m]) = 0 THEN Num(1) ELSE Fin(CallsInto(m, m), Len(calls[m]), 0)

\* C9: the V, A, S and cohesion of every module are determined by the corpus
\* and the config alone, whatever the order in which the passes visit the
\* modules.
C9_OrderIndependent ==
  pc = "done" =>
    \A k \in DOMAIN modules :
      LET m == modules[k].id
      IN /\ modules[k].V = CorpusV(m)
         /\ modules[k].A = CorpusA(m)
         /\ modules[k].s = Sphericity(CorpusV(m), CorpusA(m), cfg.alpha)
         /\ modules[k].cohesion = CorpusCohesion(m)

\* a run that visited a caller before the module it calls, the files not in
\* alphabetical order, and credited the call to the target
C9_Witness ==
  /\ pc = "done"
  /\ project = << Abs(FileC), Abs(FileA), Abs(FileB) >>
  /\ CallsInto(FileC, FileB) = 1
  /\ modulesMap[FileB].incomingInternal = 1
  /\ CallsInto(FileA, FileA) = 1

\* C10: after any number of processed calls every module's callsOut_total is
\* the number of its call expressions processed, each counted in exactly one
\* of callsOut_internal (the self calls) and callsOut_external (all others).
C10_CallTally ==
  \A m \in DOMAIN modulesMap :
    /\ modulesMap[m].callsOut_total = Len(calls[m])
    /\ modulesMap[m].callsOut_internal = CallsInto(m, m)
    /\ modulesMap[m].callsOut_external = Len(calls[m]) - CallsInto(m, m)
    /\ modulesMap[m].callsOut_total =
         modulesMap[m].callsOut_internal + modulesMap[m].callsOut_external

\* a module with one self call and one unresolved call tallied
C10_Witness ==
  /\ JustProcessed
  /\ LastTarget = Undefined
  /\ modulesMap[Current].callsOut_internal = 1
  /\ modulesMap[Current].callsOut_external = 1

====
